---------------------------- MODULE Spec2Model ----------------------------
(***************************************************************************)
(* Model of the emotion stabilizer of the employee monitoring backend:     *)
(* FEREmotionDetector (src/backend/face_analyzer.py).                      *)
(*                                                                         *)
(* Representation of numbers.  Times are whole seconds.  A classifier      *)
(* score s in [0,1] is written in hundredths (0..100).  A confidence is a  *)
(* percentage written in units of 1/Unit percent, so that the mean of up   *)
(* to five buffered confidences is an exact integer.                       *)
(***************************************************************************)
EXTENDS Integers, Sequences, FiniteSets, TLC

VARIABLES
    current_emotion,      \* self.current_emotion
    emotion_confidence,   \* self.emotion_confidence (units of 1/Unit percent)
    last_emotion_change,  \* self.last_emotion_change (seconds)
    emotion_buffer,       \* self.emotion_buffer: sequence of <<label, confidence>>
    frame_count,          \* self.frame_count
    ml_available,         \* self.ml_available
    now,                  \* the wall clock read by datetime.now()
    path,                 \* the branch the latest detect_emotion call left by
    ret,                  \* what the latest detect_emotion call gave its caller
    hist,                 \* every <<label, confidence>> the classifier path appended
    fallback_used,        \* TRUE once _fallback_emotion has been entered
    cv_available,         \* CV_AVAILABLE of main.py
    face_analyzer_available, \* FACE_ANALYZER_AVAILABLE of main.py
    camera,               \* detector.camera: "none", "opened" or "unopened"
    persistent,           \* detector.persistent_emotion, _confidence, last_change_time
    log,                  \* the rows of table detection_logs, in insertion order
    gf,                   \* what the latest get_frame call returned, and its path
    resp,                 \* the response of the latest API operation
    ticks,                \* the number of get_frame calls so far
    inflight,             \* the sampling operations inside get_frame
    streams,              \* each streaming loop and its client
    threads               \* each interleaved detect_emotion invocation, by thread

stabVars == <<current_emotion, emotion_confidence, last_emotion_change,
              emotion_buffer, frame_count, path, ret, hist, fallback_used>>

sysVars == <<cv_available, face_analyzer_available, camera, persistent, log,
             gf, resp, ticks, inflight, streams, threads>>

vars == <<current_emotion, emotion_confidence, last_emotion_change,
          emotion_buffer, frame_count, ml_available, now, path, ret, hist,
          fallback_used, cv_available, face_analyzer_available, camera,
          persistent, log, gf, resp, ticks, inflight, streams, threads>>

---------------------------------------------------------------------------
(* Bounds of the model *)

(* Calls and seconds explored.  Long runs of calls are explored at time 0,  *)
(* MidCalls calls within the first ShortTime seconds, and FewCalls calls    *)
(* over the whole of MaxTime seconds.                                       *)
MaxCalls == 18
MidCalls == 15
FewCalls == 9
ShortTime == 6
MaxTime == 11

CallBudget(t) == IF t = 0 THEN MaxCalls ELSE IF t <= ShortTime THEN MidCalls ELSE FewCalls

(* Representation unit: 1 percent == Unit units (divisible by 1..5) *)
Unit == 3 * 4 * 5

Pct(p) == p * Unit

---------------------------------------------------------------------------
(* Program constants *)

InitialEmotion == "neutral"
InitialConfidencePct == 85
ThrottleEvery == 3
BufferCap == 5
VoteMinEntries == 3
VoteMinCount == 3
VoteDwell == 2
VoteMinConfidencePct == 60
FallbackDwell == 10
FallbackEmotions == {"happy", "neutral", "sad", "surprise"}
FallbackConfLoPct == 70
FallbackConfHiPct == 85

(* Samples of random.uniform(70, 85): both ends and an interior point *)
FallbackConfidences == {Pct(FallbackConfLoPct), Pct(77), Pct(FallbackConfHiPct)}

---------------------------------------------------------------------------
(* The classifier (external): results[0]['emotions'] maps every label to a *)
(* score; the mapping keeps the order of LabelOrder when iterated.         *)

LabelOrder == <<"angry", "happy", "neutral">>
Labels == {LabelOrder[i] : i \in DOMAIN LabelOrder}

(* Score mappings the classifier may report, scores in hundredths *)
ClassifierResults ==
    { [angry |-> 90, happy |-> 5,  neutral |-> 5],
      [angry |-> 20, happy |-> 65, neutral |-> 15],
      [angry |-> 25, happy |-> 30, neutral |-> 25],
      [angry |-> 20, happy |-> 20, neutral |-> 60] }

(* The detector object as a record *)
Self == [current_emotion |-> current_emotion,
         emotion_confidence |-> emotion_confidence,
         last_emotion_change |-> last_emotion_change,
         emotion_buffer |-> emotion_buffer,
         frame_count |-> frame_count]

---------------------------------------------------------------------------
(* Helpers of the classification path *)

(* max(emotions.items(), key=lambda x: x[1])[0]: the first label, in the   *)
(* mapping's order, whose score is the largest                             *)
DominantIndex(emotions) ==
    CHOOSE i \in DOMAIN LabelOrder :
        /\ \A j \in DOMAIN LabelOrder : emotions[LabelOrder[j]] <= emotions[LabelOrder[i]]
        /\ \A j \in 1..(i - 1) : emotions[LabelOrder[j]] < emotions[LabelOrder[i]]

DominantEmotion(emotions) == LabelOrder[DominantIndex(emotions)]

(* Variant of Confidence that scales a score already in hundredths by 100 *)
Confidence_ScaledTwice(emotions) == Pct(emotions[DominantEmotion(emotions)] * 100)

(* confidence = emotions[dominant_emotion] * 100 *)
Confidence(emotions) == Pct(emotions[DominantEmotion(emotions)])

(* Variant of PushBuffer that never evicts *)
PushBuffer_NoEvict(buf, entry) == Append(buf, entry)

(* self.emotion_buffer.append(...); if len(...) > 5: self.emotion_buffer.pop(0) *)
PushBuffer(buf, entry) ==
    LET appended == Append(buf, entry)
    IN  IF Len(appended) > BufferCap THEN Tail(appended) ELSE appended

(* emotion_counts[emo] = emotion_counts.get(emo, 0) + 1, over the buffer *)
RECURSIVE EmotionCount(_, _)
EmotionCount(buf, emo) ==
    IF buf = <<>> THEN 0
    ELSE (IF Head(buf)[1] = emo THEN 1 ELSE 0) + EmotionCount(Tail(buf), emo)

(* The keys of emotion_counts in insertion order: first occurrences *)
RECURSIVE CountKeys(_, _)
CountKeys(buf, seen) ==
    IF buf = <<>> THEN seen
    ELSE CountKeys(Tail(buf),
                   IF \E i \in DOMAIN seen : seen[i] = Head(buf)[1]
                   THEN seen ELSE Append(seen, Head(buf)[1]))

(* max(emotion_counts, key=emotion_counts.get): the first key with the     *)
(* largest count                                                           *)
BestEmotion(buf) ==
    LET keys == CountKeys(buf, <<>>)
        i == CHOOSE i \in DOMAIN keys :
                /\ \A j \in DOMAIN keys : EmotionCount(buf, keys[j]) <= EmotionCount(buf, keys[i])
                /\ \A j \in 1..(i - 1) : EmotionCount(buf, keys[j]) < EmotionCount(buf, keys[i])
    IN  keys[i]

RECURSIVE ConfSum(_, _)
ConfSum(buf, emo) ==
    IF buf = <<>> THEN 0
    ELSE (IF Head(buf)[1] = emo THEN Head(buf)[2] ELSE 0) + ConfSum(Tail(buf), emo)

(* np.mean([conf for emo, conf in self.emotion_buffer if emo == best_emotion]) *)
AvgConfidence(buf, emo) == ConfSum(buf, emo) \div EmotionCount(buf, emo)

(* Variant of ShouldCommit without the confidence condition *)
ShouldCommit_NoConfidence(s, best, avg, t) ==
    /\ best # s.current_emotion
    /\ EmotionCount(s.emotion_buffer, best) >= VoteMinCount
    /\ t - s.last_emotion_change > VoteDwell

(* Variant of ShouldCommit without the dwell condition *)
ShouldCommit_NoDwell(s, best, avg, t) ==
    /\ best # s.current_emotion
    /\ EmotionCount(s.emotion_buffer, best) >= VoteMinCount
    /\ avg > Pct(VoteMinConfidencePct)

(* Variant of ShouldCommit that asks for more than three votes *)
ShouldCommit_FourVotes(s, best, avg, t) ==
    /\ best # s.current_emotion
    /\ EmotionCount(s.emotion_buffer, best) > VoteMinCount
    /\ t - s.last_emotion_change > VoteDwell
    /\ avg > Pct(VoteMinConfidencePct)

(* Variant of ShouldCommit that is content with two votes *)
ShouldCommit_TwoVotes(s, best, avg, t) ==
    /\ best # s.current_emotion
    /\ EmotionCount(s.emotion_buffer, best) >= VoteMinCount - 1
    /\ t - s.last_emotion_change > VoteDwell
    /\ avg > Pct(VoteMinConfidencePct)

(* Variant of ShouldCommit that also commits the emotion already current *)
ShouldCommit_SameEmotion(s, best, avg, t) ==
    /\ EmotionCount(s.emotion_buffer, best) >= VoteMinCount
    /\ t - s.last_emotion_change > VoteDwell
    /\ avg > Pct(VoteMinConfidencePct)

(* The guard of the commit *)
ShouldCommit(s, best, avg, t) ==
    /\ best # s.current_emotion
    /\ EmotionCount(s.emotion_buffer, best) >= VoteMinCount
    /\ t - s.last_emotion_change > VoteDwell
    /\ avg > Pct(VoteMinConfidencePct)

(* Variant of Vote with both vote thresholds at two *)
Vote_Majority2(s, t) ==
    IF Len(s.emotion_buffer) >= VoteMinEntries - 1
    THEN LET best == BestEmotion(s.emotion_buffer)
             avg == AvgConfidence(s.emotion_buffer, best)
         IN  IF /\ best # s.current_emotion
                /\ EmotionCount(s.emotion_buffer, best) >= VoteMinCount - 1
                /\ t - s.last_emotion_change > VoteDwell
                /\ avg > Pct(VoteMinConfidencePct)
             THEN [s EXCEPT !.current_emotion = best,
                            !.emotion_confidence = avg,
                            !.last_emotion_change = t]
             ELSE s
    ELSE s

(* Majority voting over the buffer and the guarded commit *)
Vote(s, t) ==
    IF Len(s.emotion_buffer) >= VoteMinEntries
    THEN LET best == BestEmotion(s.emotion_buffer)
             avg == AvgConfidence(s.emotion_buffer, best)
         IN  IF ShouldCommit(s, best, avg, t)
             THEN [s EXCEPT !.current_emotion = best,
                            !.emotion_confidence = avg,
                            !.last_emotion_change = t]
             ELSE s
    ELSE s

(* What a call hands back: a returned pair, or an exception that escaped *)
Returned(s, p, fb) ==
    [s |-> s, path |-> p, fb |-> fb,
     ret |-> [kind |-> "return", emotion |-> s.current_emotion,
              confidence |-> s.emotion_confidence]]

Raised(s, p, fb) == [s |-> s, path |-> p, fb |-> fb, ret |-> [kind |-> "raise"]]

(* Variant of FallbackEmotion that reassigns from ten seconds on *)
FallbackEmotion_AtTen(s, t, p) ==
    IF t - s.last_emotion_change >= FallbackDwell
    THEN { Returned([s EXCEPT !.current_emotion = e,
                              !.emotion_confidence = c,
                              !.last_emotion_change = t], p, TRUE) :
             e \in FallbackEmotions, c \in FallbackConfidences }
    ELSE { Returned(s, p, TRUE) }

(* Variant of FallbackEmotion with a misspelt label in its list *)
FallbackEmotion_Typo(s, t, p) ==
    IF t - s.last_emotion_change > FallbackDwell
    THEN { Returned([s EXCEPT !.current_emotion = e,
                              !.emotion_confidence = c,
                              !.last_emotion_change = t], p, TRUE) :
             e \in {"happy", "neutral", "sad", "suprise"}, c \in FallbackConfidences }
    ELSE { Returned(s, p, TRUE) }

(* _fallback_emotion: the set of its possible results, one for each draw   *)
(* of random.choices and random.uniform; t is the value of datetime.now()  *)
FallbackEmotion(s, t, p) ==
    IF t - s.last_emotion_change > FallbackDwell
    THEN { Returned([s EXCEPT !.current_emotion = e,
                              !.emotion_confidence = c,
                              !.last_emotion_change = t], p, TRUE) :
             e \in FallbackEmotions, c \in FallbackConfidences }
    ELSE { Returned(s, p, TRUE) }

(* The classifier's side of one call: a list with one face's scores, an    *)
(* empty list, or an exception (cv2.cvtColor or detect_emotions raising)   *)
Outcomes ==
    [kind : {"result"}, emotions : ClassifierResults]
        \cup {[kind |-> "empty"], [kind |-> "exception"]}

(* The body of the try statement: the set of its possible results *)
TryBody(s, outcome, t) ==
    IF outcome.kind = "exception" THEN { Raised(s, "error", FALSE) }
    ELSE IF outcome.kind = "result"
    THEN LET entry == <<DominantEmotion(outcome.emotions), Confidence(outcome.emotions)>>
             s1 == [s EXCEPT !.emotion_buffer = PushBuffer(@, entry)]
         IN  { Returned(Vote(s1, t), "classified", FALSE) }
    ELSE FallbackEmotion(s, t, "noface")

(* Variant of TryExcept whose handler lets the exception through *)
TryExcept_NoCatch(s, outcome, t) == TryBody(s, outcome, t)

(* try: ... except Exception: return self._fallback_emotion(face_roi) *)
TryExcept(s, outcome, t) ==
    UNION { IF r.ret.kind = "raise" THEN FallbackEmotion(r.s, t, "error") ELSE {r} :
              r \in TryBody(s, outcome, t) }

(* Variant of IsSampled that is off by one invocation *)
IsSampled_OffByOne(count) == count % ThrottleEvery = 1

(* Whether this invocation is one the throttle lets through *)
IsSampled(count) == count % ThrottleEvery = 0

(* detect_emotion: the set of its possible results *)
DetectEmotion(s, ml, outcome, t) ==
    LET s1 == [s EXCEPT !.frame_count = @ + 1]
    IN  IF ~IsSampled(s1.frame_count) THEN { Returned(s1, "throttled", FALSE) }
        ELSE IF ~ml THEN FallbackEmotion(s1, t, "noml")
        ELSE TryExcept(s1, outcome, t)

---------------------------------------------------------------------------
(* The state machine *)

(* None in a field that holds a string *)
NULL == "null"

(* None in a field that holds a number *)
NullNumber == 0 - 1

(* hasattr(self, 'persistent_emotion') is false *)
PersistentUnset ==
    [state |-> "unset", emotion |-> NULL, confidence |-> NullNumber,
     last_change_time |-> NullNumber]

(* The streaming loops: websocket_endpoint and the generator of video_feed *)
StreamOps == {"websocket", "video_feed"}

(* No client has asked for a stream yet *)
NoStreams == [k \in StreamOps |-> [loop |-> "none", client |-> "none"]]

(* The threads that call detect_emotion on the one shared detector: the    *)
(* worker thread iterating the generator of video_feed, and the event loop *)
(* thread running a request handler                                        *)
RaceThreads == {"video_feed", "create_detection"}

(* No invocation of detect_emotion is under way *)
NoThreads == [t \in RaceThreads |-> [pc |-> "idle", loaded |-> 0, calls |-> 0]]

(* The rest of the backend before its first request, with OpenCV and the   *)
(* face analyzer imported                                                   *)
SystemAtRest ==
    /\ cv_available = TRUE
    /\ face_analyzer_available = TRUE
    /\ camera = "none"
    /\ persistent = PersistentUnset
    /\ log = <<>>
    /\ gf = [path |-> "none", draw |-> [is_present |-> FALSE, emotion |-> NULL,
                                        confidence |-> NullNumber],
             frame |-> NULL, is_present |-> FALSE, emotion |-> NULL,
             confidence |-> NullNumber]
    /\ resp = [op |-> "none"]
    /\ ticks = 0
    /\ inflight = {}
    /\ streams = NoStreams
    /\ threads = NoThreads

(* FEREmotionDetector.__init__ *)
FaceAnalyzerInit ==
    /\ current_emotion = InitialEmotion
    /\ emotion_confidence = Pct(InitialConfidencePct)
    /\ last_emotion_change = 0
    /\ emotion_buffer = <<>>
    /\ frame_count = 0
    /\ ml_available \in BOOLEAN
    /\ now = 0
    /\ path = "init"
    /\ ret = [kind |-> "none"]
    /\ hist = <<>>
    /\ fallback_used = FALSE

Init == FaceAnalyzerInit /\ SystemAtRest

(* One call of detect_emotion whose classifier, if reached, answers outcome *)
Call(outcome) ==
    /\ frame_count < CallBudget(now)
    /\ \E r \in DetectEmotion(Self, ml_available, outcome, now) :
              /\ current_emotion' = r.s.current_emotion
              /\ emotion_confidence' = r.s.emotion_confidence
              /\ last_emotion_change' = r.s.last_emotion_change
              /\ emotion_buffer' = r.s.emotion_buffer
              /\ frame_count' = r.s.frame_count
              /\ path' = r.path
              /\ ret' = r.ret
              /\ hist' = IF r.path = "classified"
                         THEN Append(hist, <<DominantEmotion(outcome.emotions),
                                             Confidence(outcome.emotions)>>)
                         ELSE hist
              /\ fallback_used' = (fallback_used \/ r.fb)
    /\ UNCHANGED <<ml_available, now>>
    /\ UNCHANGED sysVars

(* detect_emotion on a region in which the classifier finds a face *)
DetectFace == \E em \in ClassifierResults : Call([kind |-> "result", emotions |-> em])

(* detect_emotion on a region in which the classifier finds no face *)
DetectNoFace == Call([kind |-> "empty"])

(* detect_emotion on a region on which the classifier raises *)
DetectFails == Call([kind |-> "exception"])

(* A second passes *)
Tick ==
    /\ now < MaxTime
    /\ frame_count <= CallBudget(now + 1)
    /\ now' = now + 1
    /\ UNCHANGED <<current_emotion, emotion_confidence, last_emotion_change,
                   emotion_buffer, frame_count, ml_available, path, ret, hist,
                   fallback_used>>
    /\ UNCHANGED sysVars

Next == DetectFace \/ DetectNoFace \/ DetectFails \/ Tick

Spec == Init /\ [][Next]_vars

---------------------------------------------------------------------------
(* The sampler: EnhancedEmotionDetector of src/backend/main.py             *)

(* Bounds of the system model: get_frame calls, rows, seconds *)
MaxTicks == 3
MaxLog == 2
MaxSysTime == 2

(* A confidence given in tenths of a percent *)
Tenths(x) == x * (Unit \div 10)

(* self.emotions *)
DetectorEmotions == {"happy", "sad", "neutral", "angry", "surprise", "fear", "disgust"}

(* Samples of round(random.uniform(70, 95), 1) *)
DemoConfidences == {Tenths(700), Tenths(950)}

(* The draws of _get_demo_frame: random.random() > 0.3, random.choice,     *)
(* random.uniform                                                          *)
DemoDraws ==
    {[is_present |-> FALSE, emotion |-> NULL, confidence |-> NullNumber]}
        \cup [is_present : {TRUE}, emotion : DetectorEmotions, confidence : DemoConfidences]

(* What get_frame returns, with the path it took and, in demo mode, the    *)
(* draw it made                                                            *)
FrameResult(p, draw, frame, present, emotion, confidence) ==
    [path |-> p, draw |-> draw, frame |-> frame, is_present |-> present,
     emotion |-> emotion, confidence |-> confidence]

(* return None, False, None, None *)
NoFrame(p, draw) == FrameResult(p, draw, NULL, FALSE, NULL, NullNumber)

(* No draw was made: the call did not reach _get_demo_frame *)
NoDraw == [is_present |-> FALSE, emotion |-> NULL, confidence |-> NullNumber]

(* _get_demo_frame.  The names np and cv2 are bound in main.py only if the *)
(* import of lines 71-74 succeeded, that is iff CV_AVAILABLE; unbound, the *)
(* first use raises NameError inside the try, and the bare except returns  *)
(* None, False, None, None                                                 *)
GetDemoFrame(cv) ==
    { IF cv
      THEN FrameResult("demo", d, "bytes", d.is_present, d.emotion, d.confidence)
      ELSE NoFrame("demo", d) : d \in DemoDraws }

(* initialize_camera; opens is what cv2.VideoCapture does when asked *)
InitializeCamera(cv, cam, opens) ==
    IF ~cv THEN [ok |-> FALSE, camera |-> cam]
    ELSE IF cam = "none"
    THEN CASE opens = "opened" -> [ok |-> TRUE, camera |-> "opened"]
           [] opens = "unopened" -> [ok |-> FALSE, camera |-> "unopened"]
           [] OTHER -> [ok |-> FALSE, camera |-> "none"]
    ELSE [ok |-> (cam = "opened"), camera |-> cam]

(* The targets of _detect_emotion_basic by brightness and contrast, with   *)
(* samples of the confidence each draws                                    *)
BasicTargets ==
    {<<"happy", Pct(80)>>, <<"happy", Pct(92)>>, <<"sad", Pct(78)>>, <<"sad", Pct(88)>>,
     <<"surprise", Pct(75)>>, <<"surprise", Pct(85)>>, <<"neutral", Pct(85)>>,
     <<"neutral", Pct(95)>>, <<"same", NullNumber>>}

Max(a, b) == IF a >= b THEN a ELSE b
Min(a, b) == IF a <= b THEN a ELSE b

(* _detect_emotion_basic: the set of its possible results.  An exception   *)
(* (cv2.cvtColor raising, or last_change_time missing) leaves through the  *)
(* handler, which returns the persistent pair                              *)
DetectEmotionBasic(pers, t) ==
    LET handler(q) ==
            LET q1 == IF q.state = "unset"
                      THEN [state |-> "partial", emotion |-> "neutral",
                            confidence |-> Pct(85), last_change_time |-> NullNumber]
                      ELSE q
            IN  [persistent |-> q1, emotion |-> q1.emotion, confidence |-> q1.confidence]
        p0 == IF pers.state = "unset"
              THEN [state |-> "full", emotion |-> "neutral",
                    confidence |-> Pct(85), last_change_time |-> t]
              ELSE pers
        keep(q) == [persistent |-> q, emotion |-> q.emotion, confidence |-> q.confidence]
    IN  {handler(pers)} \cup
        (IF p0.state = "partial" THEN {handler(p0)}
         ELSE IF t - p0.last_change_time < 2 THEN {keep(p0)}
         ELSE UNION {
            LET target == IF tg[1] = "same" THEN p0.emotion ELSE tg[1]
                conf == IF tg[1] = "same" THEN Max(Pct(75), p0.confidence - Pct(2)) ELSE tg[2]
            IN  (IF target # p0.emotion /\ conf > Pct(80)
                 THEN {keep([state |-> "full", emotion |-> target,
                             confidence |-> conf, last_change_time |-> t])}
                 ELSE {})
                \cup
                { keep([p0 EXCEPT !.confidence = Max(Pct(75), Min(Pct(95), @ + Pct(d)))]) :
                    d \in {-1, 1} }
            : tg \in BasicTargets })

NoCall == [path |-> "nocall"]

(* detect_emotion_enhanced: the face analyzer if it was imported, and the  *)
(* basic detection if it was not or if it raised                           *)
DetectEmotionEnhanced(fa, s, ml, pers, t) ==
    LET basic(call, entry) ==
            { [stab |-> call, entry |-> entry, persistent |-> b.persistent,
               emotion |-> b.emotion, confidence |-> b.confidence] :
                b \in DetectEmotionBasic(pers, t) }
    IN  IF fa
        THEN UNION { UNION {
                LET entry == IF o.kind = "result"
                             THEN <<DominantEmotion(o.emotions), Confidence(o.emotions)>>
                             ELSE <<>>
                IN  IF r.ret.kind = "return"
                    THEN {[stab |-> r, entry |-> entry, persistent |-> pers,
                           emotion |-> r.ret.emotion, confidence |-> r.ret.confidence]}
                    ELSE basic(r, entry)
                : r \in DetectEmotion(s, ml, o, t) } : o \in Outcomes }
        ELSE basic(NoCall, <<>>)

(* What the camera and the scene do on one call *)
Scenes == {"read_fail", "read_raises", "detect_raises", "no_face", "face",
           "draw_raises", "encode_raises"}

Opens == {"opened", "unopened", "raises"}

(* Variant of DetectFaceAndEmotion whose handler keeps the emotion *)
DetectFaceAndEmotion_HandlerKeepsEmotion(scene, e) ==
    [is_present |-> (scene \in {"face", "encode_raises"}),
     emotion |-> e.emotion, confidence |-> e.confidence]

(* detect_face_and_emotion: what it returns with the frame; e is what      *)
(* detect_emotion_enhanced returned if it was reached.  Without a face,    *)
(* and from the handler, it returns False, None, None                      *)
DetectFaceAndEmotion(scene, e) ==
    IF scene \in {"face", "encode_raises"}
    THEN [is_present |-> TRUE, emotion |-> e.emotion, confidence |-> e.confidence]
    ELSE [is_present |-> FALSE, emotion |-> NULL, confidence |-> NullNumber]

(* get_frame: the set of its possible results *)
GetFrame(cv, fa, cam, pers, s, ml, t, opens, scene) ==
    LET out(g, c, e) == [gf |-> g, camera |-> c, stab |-> e.stab, entry |-> e.entry,
                         persistent |-> e.persistent]
        none == [stab |-> NoCall, entry |-> <<>>, persistent |-> pers,
                 emotion |-> NULL, confidence |-> NullNumber]
        encoded(e) ==
            LET o == DetectFaceAndEmotion(scene, e)
            IN  IF scene = "encode_raises" THEN NoFrame(scene, NoDraw)
                ELSE FrameResult(scene, NoDraw, "bytes", o.is_present, o.emotion, o.confidence)
    IN  IF ~cv THEN { out(g, cam, none) : g \in GetDemoFrame(cv) }
        ELSE LET ic == InitializeCamera(cv, cam, opens)
             IN  IF ~ic.ok THEN { out(NoFrame("no_camera", NoDraw), ic.camera, none) }
                 ELSE IF scene \in {"read_fail", "read_raises"}
                 THEN { out(NoFrame(scene, NoDraw), ic.camera, none) }
                 ELSE IF scene \in {"detect_raises", "no_face"}
                 THEN { out(encoded(none), ic.camera, none) }
                 ELSE { out(encoded(e), ic.camera, e) :
                          e \in DetectEmotionEnhanced(fa, s, ml, pers, t) }

(* All results of one get_frame call in the current state *)
FrameResults ==
    UNION { GetFrame(cv_available, face_analyzer_available, camera, persistent,
                     Self, ml_available, now, opens, scene) :
              opens \in Opens, scene \in Scenes }

(* The effect of one get_frame call on the detector and the face analyzer *)
ApplyFrame(f) ==
    /\ ticks' = ticks + 1
    /\ gf' = f.gf
    /\ camera' = f.camera
    /\ persistent' = f.persistent
    /\ IF f.stab = NoCall
       THEN UNCHANGED stabVars
       ELSE /\ current_emotion' = f.stab.s.current_emotion
            /\ emotion_confidence' = f.stab.s.emotion_confidence
            /\ last_emotion_change' = f.stab.s.last_emotion_change
            /\ emotion_buffer' = f.stab.s.emotion_buffer
            /\ frame_count' = f.stab.s.frame_count
            /\ path' = f.stab.path
            /\ ret' = f.stab.ret
            /\ hist' = IF f.stab.path = "classified" THEN Append(hist, f.entry) ELSE hist
            /\ fallback_used' = (fallback_used \/ f.stab.fb)
    /\ UNCHANGED <<ml_available, now, cv_available, face_analyzer_available>>

---------------------------------------------------------------------------
(* The log store and the API handlers of src/backend/main.py and           *)
(* src/backend/export_routes.py                                            *)

Employees == {"EMP001", "EMP002"}

(* The employee_id parameter when the request gives none *)
DefaultEmployee == "EMP001"

(* The limit parameter of get_detections when the request gives none *)
DefaultLimit == 100

Limits == {1, DefaultLimit}

(* The days parameter of the analytics and export requests *)
Days == {0, 1}

SecondsPerDay == 86400

(* ISO texts of the instants 0, 1, 2, ... of the model's clock *)
IsoTexts == <<"T00:00:00", "T00:00:01", "T00:00:02", "T00:00:03", "T00:00:04">>

(* datetime.isoformat *)
IsoFormat(t) == IsoTexts[t + 1]

(* The start_date and end_date parameters: absent, not a date, or a date *)
DateParams == {"", "yesterday", IsoFormat(1)}

IsIsoText(d) == \E t \in 0 .. MaxSysTime : IsoFormat(t) = d

(* datetime.fromisoformat on a text for which it does not raise *)
FromIsoFormat(d) == CHOOSE t \in 0 .. MaxSysTime : IsoFormat(t) = d

(* Variant of NextId that gives the id of the last row again *)
NextId_Reused(l) == IF l = <<>> THEN 1 ELSE l[Len(l)].id

(* The id an autoincrement primary key gives the next row *)
NextId(l) == IF l = <<>> THEN 1 ELSE l[Len(l)].id + 1

(* Variant of InsertRow that stores the row twice *)
InsertRow_Twice(l, emp, t, g) ==
    LET row(id) == [id |-> id, employee_id |-> emp, timestamp |-> t,
                    is_present |-> IF g.is_present THEN 1 ELSE 0,
                    emotion |-> g.emotion, confidence |-> g.confidence]
    IN  l \o <<row(NextId(l)), row(NextId(l) + 1)>>

(* DetectionLog(...), db.add, db.commit with the column default of         *)
(* timestamp                                                               *)
InsertRow(l, emp, t, g) ==
    Append(l, [id |-> NextId(l), employee_id |-> emp, timestamp |-> t,
               is_present |-> IF g.is_present THEN 1 ELSE 0,
               emotion |-> g.emotion, confidence |-> g.confidence])

(* The response dictionary of one row *)
DetectionResponse(d) ==
    [id |-> d.id, employee_id |-> d.employee_id, timestamp |-> d.timestamp,
     is_present |-> (d.is_present # 0), emotion |-> d.emotion, confidence |-> d.confidence]

Range(q) == {q[i] : i \in DOMAIN q}

(* The rows the filters of get_detections keep *)
Matching(l, emp, start, end) ==
    { d \in Range(l) :
        /\ d.employee_id = emp
        /\ start # "" => d.timestamp >= FromIsoFormat(start)
        /\ end # "" => d.timestamp <= FromIsoFormat(end) }

(* Variant of OrderByTimestampDesc that orders oldest first *)
OrderByTimestampDesc_Ascending(rows) ==
    { q \in [1 .. Cardinality(rows) -> rows] :
        /\ \A i, j \in DOMAIN q : i < j => q[i] # q[j] /\ q[i].timestamp <= q[j].timestamp }

(* order_by(timestamp.desc()): every order the database may give the rows, *)
(* rows of equal timestamp in any order                                    *)
OrderByTimestampDesc(rows) ==
    { q \in [1 .. Cardinality(rows) -> rows] :
        /\ \A i, j \in DOMAIN q : i < j => q[i] # q[j] /\ q[i].timestamp >= q[j].timestamp }

(* limit(n) *)
Limit(q, n) == SubSeq(q, 1, Min(n, Len(q)))

(* The list comprehension that get_detections returns *)
DetectionResponses(q) == [i \in DOMAIN q |-> DetectionResponse(q[i])]

(* The rows the filter of get_analytics, export_csv and export_pdf keeps *)
WindowRows(l, emp, since) ==
    SelectSeq(l, LAMBDA d : d.employee_id = emp /\ d.timestamp >= since)

(* Variant of PresentCount that counts every row *)
PresentCount_All(w) == Len(w)

(* sum(1 for d in detections if d.is_present) *)
PresentCount(w) == Cardinality({i \in DOMAIN w : w[i].is_present # 0})

RECURSIVE EmotionCounts(_)
(* Variant of EmotionCounts that sets a count instead of adding to it *)
EmotionCounts_Set(w) ==
    IF w = <<>> THEN <<>>
    ELSE LET counts == EmotionCounts(SubSeq(w, 1, Len(w) - 1))
             d == w[Len(w)]
         IN  IF d.emotion # NULL /\ d.is_present # 0
             THEN [k \in DOMAIN counts \cup {d.emotion} |->
                     IF k = d.emotion THEN 1 ELSE counts[k]]
             ELSE counts

(* The loop that fills emotion_counts *)
EmotionCounts(w) ==
    IF w = <<>> THEN <<>>
    ELSE LET counts == EmotionCounts(SubSeq(w, 1, Len(w) - 1))
             d == w[Len(w)]
         IN  IF d.emotion # NULL /\ d.is_present # 0
             THEN [k \in DOMAIN counts \cup {d.emotion} |->
                     IF k = d.emotion
                     THEN (IF k \in DOMAIN counts THEN counts[k] ELSE 0) + 1
                     ELSE counts[k]]
             ELSE counts

(* Variant of RoundDiv that truncates *)
RoundDiv_Truncated(n, d) == {n \div d}

(* round(n / d, 0) for a float n / d: the nearest integer, and on a tie in *)
(* decimal the side on which the binary value of the float lies            *)
RoundDiv(n, d) ==
    LET q == n \div d
        r == n % d
    IN  IF 2 * r < d THEN {q} ELSE IF 2 * r > d THEN {q + 1} ELSE {q, q + 1}

(* The present counts up to 15 at which count * 0.5 / 60 lies halfway      *)
(* between two hundredths, with the hundredths round() gives: the double   *)
(* of 0.025 lies above it, the double of 0.075 below it, and 0.125 is      *)
(* exact and rounds to even                                                *)
HoursTies == (3 :> 3) @@ (9 :> 7) @@ (15 :> 12)

(* round((present_count * 0.5) / 60, 2) in hundredths *)
RoundedHours(p) ==
    IF p \in DOMAIN HoursTies THEN {HoursTies[p]} ELSE RoundDiv(p * 5 * 100, 60 * 10)

(* The body of get_analytics: percentages and hours in hundredths *)
Analytics(w) ==
    IF w = <<>>
    THEN { [total_detections |-> 0, presence_percentage |-> 0,
            emotion_distribution |-> <<>>, working_hours |-> 0] }
    ELSE { [total_detections |-> Len(w), presence_percentage |-> pp,
            emotion_distribution |-> EmotionCounts(w), working_hours |-> wh] :
             pp \in RoundDiv(PresentCount(w) * 100 * 100, Len(w)),
             wh \in RoundedHours(PresentCount(w)) }

(* Variant of ExportSummary that counts every row as present *)
ExportSummary_AllRows(w) ==
    [total_detections |-> Len(w),
     presence_percentage |-> IF Len(w) > 0 THEN <<Len(w) * 100, Len(w)>> ELSE <<0, 1>>,
     emotion_distribution |-> EmotionCounts(w),
     working_hours |-> <<Len(w) * 5, 60 * 10>>]

(* The summary of export_csv and export_pdf: the same quantities, not      *)
(* rounded, as fractions <<numerator, denominator>>                        *)
ExportSummary(w) ==
    [total_detections |-> Len(w),
     presence_percentage |-> IF Len(w) > 0 THEN <<PresentCount(w) * 100, Len(w)>> ELSE <<0, 1>>,
     emotion_distribution |-> EmotionCounts(w),
     working_hours |-> <<PresentCount(w) * 5, 60 * 10>>]

---------------------------------------------------------------------------
(* The state machine of the backend *)

(* The backend after start-up.  face_analyzer.py imports cv2, so the face  *)
(* analyzer is imported only if OpenCV is; its classifier may be missing   *)
SysInit ==
    /\ current_emotion = InitialEmotion
    /\ emotion_confidence = Pct(InitialConfidencePct)
    /\ last_emotion_change = 0
    /\ emotion_buffer = <<>>
    /\ frame_count = 0
    /\ now = 0
    /\ path = "init"
    /\ ret = [kind |-> "none"]
    /\ hist = <<>>
    /\ fallback_used = FALSE
    /\ cv_available \in BOOLEAN
    /\ face_analyzer_available \in (IF cv_available THEN BOOLEAN ELSE {FALSE})
    /\ ml_available \in (IF face_analyzer_available THEN BOOLEAN ELSE {FALSE})
    /\ camera = "none"
    /\ persistent = PersistentUnset
    /\ log = <<>>
    /\ gf = NoFrame("none", NoDraw)
    /\ resp = [op |-> "none"]
    /\ ticks = 0
    /\ inflight = {}
    /\ streams = NoStreams
    /\ threads = NoThreads

(* What the database does in the try block of create_detection: nothing   *)
(* raises, db.commit() raises, or db.refresh() raises after the commit     *)
DbOutcomes == {"ok", "commit_raises", "refresh_raises"}

(* create_detection after get_frame returned f.  A commit that raises      *)
(* stores nothing and db.rollback() has nothing left to undo; a refresh    *)
(* that raises comes after the commit, which db.rollback() cannot undo.    *)
(* Either exception is answered with HTTP 500, its text in the detail      *)
StoreDetection(emp, f, db) ==
    IF db = "commit_raises"
    THEN /\ log' = log
         /\ resp' = [op |-> "create_detection", status |-> 500, raised |-> "commit"]
    ELSE /\ log' = InsertRow(log, emp, now, f.gf)
         /\ resp' = IF db = "ok"
                    THEN [op |-> "create_detection", status |-> 200,
                          body |-> DetectionResponse(log'[Len(log')])]
                    ELSE [op |-> "create_detection", status |-> 500, raised |-> "refresh"]

(* websocket_endpoint after get_frame returned f *)
SendUpdate(f) ==
    /\ resp' = [op |-> "websocket", sent |-> (f.gf.frame # NULL),
                is_present |-> f.gf.is_present, emotion |-> f.gf.emotion,
                confidence |-> f.gf.confidence]
    /\ UNCHANGED log

(* The generator of video_feed after get_frame returned f *)
YieldFrame(f) ==
    /\ resp' = [op |-> "video_feed", yielded |-> (f.gf.frame # NULL)]
    /\ UNCHANGED log

(* Calls of get_frame explored by time t: the last of MaxTicks calls is    *)
(* explored before the last second                                         *)
TickBudget(t) == IF t < MaxSysTime THEN MaxTicks ELSE MaxTicks - 1

(* POST /api/detection *)
CreateDetection(emp) ==
    /\ ticks < TickBudget(now)
    /\ Len(log) < MaxLog
    /\ \E f \in FrameResults, db \in DbOutcomes : ApplyFrame(f) /\ StoreDetection(emp, f, db)
    /\ UNCHANGED <<inflight, streams, threads>>

(* One round of the loop of websocket_endpoint *)
WsTick ==
    /\ ticks < TickBudget(now)
    /\ \E f \in FrameResults : ApplyFrame(f) /\ SendUpdate(f)
    /\ UNCHANGED <<inflight, streams, threads>>

(* One round of the generator of video_feed *)
VideoTick ==
    /\ ticks < TickBudget(now)
    /\ \E f \in FrameResults : ApplyFrame(f) /\ YieldFrame(f)
    /\ UNCHANGED <<inflight, streams, threads>>

(* Whether a date parameter is one that datetime.fromisoformat rejects; an *)
(* empty parameter is not parsed                                           *)
Malformed(d) == d # "" /\ ~IsIsoText(d)

(* GET /api/detections.  The parsing of the dates and the query are in one *)
(* try block, whose handler answers every exception with HTTP 400 and the  *)
(* text of the exception after 'Invalid date format: '; store_ok is        *)
(* whether the query, if reached, returns                                  *)
GetDetections(emp, limit, start, end) ==
    /\ \E store_ok \in BOOLEAN :
          IF Malformed(start) \/ Malformed(end)
          THEN resp' = [op |-> "get_detections", status |-> 400, employee_id |-> emp,
                        limit |-> limit, start |-> start, end |-> end,
                        raised |-> "fromisoformat"]
          ELSE IF ~store_ok
          THEN resp' = [op |-> "get_detections", status |-> 400, employee_id |-> emp,
                        limit |-> limit, start |-> start, end |-> end,
                        raised |-> "query"]
          ELSE \E q \in OrderByTimestampDesc(Matching(log, emp, start, end)) :
                  resp' = [op |-> "get_detections", status |-> 200, employee_id |-> emp,
                           limit |-> limit, start |-> start, end |-> end,
                           body |-> DetectionResponses(Limit(q, limit))]
    /\ UNCHANGED <<stabVars, ml_available, now, cv_available, face_analyzer_available,
                   camera, persistent, log, gf, ticks, inflight, streams, threads>>

(* GET /api/analytics *)
GetAnalytics(emp, days) ==
    /\ \E b \in Analytics(WindowRows(log, emp, now - days * SecondsPerDay)) :
          resp' = [op |-> "get_analytics", status |-> 200, employee_id |-> emp,
                   days |-> days, at |-> now, body |-> b]
    /\ UNCHANGED <<stabVars, ml_available, now, cv_available, face_analyzer_available,
                   camera, persistent, log, gf, ticks, inflight, streams, threads>>

(* GET /api/export/csv *)
ExportCsv(emp, days) ==
    /\ LET w == WindowRows(log, emp, now - days * SecondsPerDay)
       IN  resp' = [op |-> "export_csv", status |-> 200, employee_id |-> emp,
                    days |-> days, at |-> now, summary |-> ExportSummary(w)]
    /\ UNCHANGED <<stabVars, ml_available, now, cv_available, face_analyzer_available,
                   camera, persistent, log, gf, ticks, inflight, streams, threads>>

(* GET /api/export/pdf *)
ExportPdf(emp, days) ==
    /\ LET w == WindowRows(log, emp, now - days * SecondsPerDay)
       IN  resp' = IF w = <<>>
                   THEN [op |-> "export_pdf", status |-> 404, employee_id |-> emp,
                         days |-> days, at |-> now]
                   ELSE [op |-> "export_pdf", status |-> 200, employee_id |-> emp,
                         days |-> days, at |-> now, summary |-> ExportSummary(w)]
    /\ UNCHANGED <<stabVars, ml_available, now, cv_available, face_analyzer_available,
                   camera, persistent, log, gf, ticks, inflight, streams, threads>>

(* A second passes *)
SysTick ==
    /\ now < MaxSysTime
    /\ ticks <= TickBudget(now + 1)
    /\ now' = now + 1
    /\ UNCHANGED <<stabVars, ml_available, sysVars>>

(* The sampling operations, from every start-up *)
SysNext ==
    \/ CreateDetection(DefaultEmployee)
    \/ WsTick
    \/ VideoTick
    \/ SysTick

SysSpec == SysInit /\ [][SysNext]_vars

(* The backend after a start-up that imported OpenCV and the face analyzer *)
ApiInit == SysInit /\ cv_available /\ face_analyzer_available

(* The days parameter when the request gives none *)
DefaultDays == 1

(* The operations of the API, with the parameters a request may leave out  *)
(* at their defaults                                                       *)
ApiNext ==
    \/ \E emp \in Employees : CreateDetection(emp)
    \/ \E emp \in Employees : GetDetections(emp, DefaultLimit, "", "")
    \/ \E emp \in Employees : GetAnalytics(emp, DefaultDays)
    \/ \E emp \in Employees : ExportCsv(emp, DefaultDays)
    \/ \E emp \in Employees : ExportPdf(emp, DefaultDays)

ApiSpec == ApiInit /\ [][ApiNext]_vars

(* Bounds of the stored logs: rows of an event window, rows of a queried   *)
(* log, the time of the start-up                                           *)
MaxWindow == 4
MaxStored == 2
StartTime == 1

(* Observations of get_frame that create_detection stored: two of the      *)
(* basic detection and one without a face                                  *)
StoredObservations ==
    {[is_present |-> TRUE, emotion |-> "happy", confidence |-> Pct(92)],
     [is_present |-> TRUE, emotion |-> "sad", confidence |-> Pct(88)],
     [is_present |-> FALSE, emotion |-> NULL, confidence |-> NullNumber]}

(* The requests that stored them, made in the last second up to time t *)
StoredRequests(t) ==
    [employee_id : Employees, at : Max(0, t - 1) .. t, observation : StoredObservations]

InOrder(q) == \A i \in 1 .. Len(q) - 1 : q[i].at <= q[i + 1].at

RECURSIVE StoreAll(_)
(* The log that the successful create_detection requests q leave in the    *)
(* database                                                                *)
StoreAll(q) ==
    IF q = <<>> THEN <<>>
    ELSE LET last == q[Len(q)]
         IN  InsertRow(StoreAll(SubSeq(q, 1, Len(q) - 1)), last.employee_id, last.at,
                       last.observation)

(* The backend started at StartTime on a database that earlier runs left   *)
(* with at most n rows                                                     *)
StoredInit(n) ==
    /\ current_emotion = InitialEmotion
    /\ emotion_confidence = Pct(InitialConfidencePct)
    /\ now = StartTime
    /\ last_emotion_change = now
    /\ emotion_buffer = <<>>
    /\ frame_count = 0
    /\ ml_available = TRUE
    /\ path = "init"
    /\ ret = [kind |-> "none"]
    /\ hist = <<>>
    /\ fallback_used = FALSE
    /\ cv_available = TRUE
    /\ face_analyzer_available = TRUE
    /\ camera = "none"
    /\ persistent = PersistentUnset
    /\ \E k \in 0 .. n : \E q \in [1 .. k -> StoredRequests(now)] :
          InOrder(q) /\ log = StoreAll(q)
    /\ gf = NoFrame("none", NoDraw)
    /\ resp = [op |-> "none"]
    /\ ticks = 0
    /\ inflight = {}
    /\ streams = NoStreams
    /\ threads = NoThreads

AnalyticsInit == StoredInit(MaxWindow)

(* The operations that summarise an event window *)
AnalyticsNext ==
    \/ \E emp \in Employees, days \in Days : GetAnalytics(emp, days)
    \/ \E emp \in Employees : ExportCsv(emp, DefaultDays)
    \/ \E emp \in Employees : ExportPdf(emp, DefaultDays)

AnalyticsSpec == AnalyticsInit /\ [][AnalyticsNext]_vars

QueryInit == StoredInit(MaxStored)

(* The queries of the log store *)
QueryNext ==
    \E emp \in Employees, limit \in Limits, start, end \in DateParams :
        GetDetections(emp, limit, start, end)

QuerySpec == QueryInit /\ [][QueryNext]_vars

(* The operations that sample the camera.  The handlers create_detection   *)
(* and websocket_endpoint are coroutines of the one event loop, and call   *)
(* get_frame without awaiting; the generator of video_feed is iterated by  *)
(* the server in a worker thread                                           *)
SamplingOps == {"create_detection", "websocket", "video_feed"}

EventLoopOps == {"create_detection", "websocket"}

(* op enters get_frame.  A coroutine enters only when no other coroutine   *)
(* is inside; get_frame itself takes no lock and holds nobody back         *)
BeginFrame(op) ==
    /\ ticks + Cardinality(inflight) < MaxTicks
    /\ op = "create_detection" => Len(log) < MaxLog
    /\ op \notin inflight
    /\ op \in EventLoopOps => inflight \cap EventLoopOps = {}
    /\ inflight' = inflight \cup {op}
    /\ UNCHANGED <<stabVars, ml_available, now, cv_available, face_analyzer_available,
                   camera, persistent, log, gf, resp, ticks, streams, threads>>

(* op leaves get_frame with a result and goes on with it *)
EndFrame(op) ==
    /\ op \in inflight
    /\ inflight' = inflight \ {op}
    /\ \E f \in FrameResults :
          /\ ApplyFrame(f)
          /\ CASE op = "create_detection" ->
                    \E db \in DbOutcomes : StoreDetection(DefaultEmployee, f, db)
               [] op = "websocket" -> SendUpdate(f)
               [] OTHER -> YieldFrame(f)
    /\ UNCHANGED <<streams, threads>>

CameraNext ==
    \/ \E op \in SamplingOps : BeginFrame(op)
    \/ \E op \in SamplingOps : EndFrame(op)

(* The sampling operations as the server interleaves them *)
CameraSpec == Init /\ [][CameraNext]_vars

---------------------------------------------------------------------------
(* The streaming loops and their clients *)

(* A client opens stream k: websocket_endpoint accepts the connection and  *)
(* enters its loop; video_feed hands its generator to StreamingResponse    *)
OpenStream(k) ==
    /\ streams[k].loop = "none"
    /\ streams' = [streams EXCEPT ![k] = [loop |-> "running", client |-> "connected"]]
    /\ UNCHANGED <<stabVars, ml_available, now, cv_available, face_analyzer_available,
                   camera, persistent, log, gf, resp, ticks, inflight, threads>>

(* The client of stream k goes away *)
ClientLeaves(k) ==
    /\ streams[k].client = "connected"
    /\ streams' = [streams EXCEPT ![k].client = "gone"]
    /\ UNCHANGED <<stabVars, ml_available, now, cv_available, face_analyzer_available,
                   camera, persistent, log, gf, resp, ticks, inflight, threads>>

(* One round of the loop of websocket_endpoint.  Only send_json can find   *)
(* the client gone, and it is called only with a frame; its exception      *)
(* ends the loop, whose handlers remove the connection from the manager    *)
WsLoopTick ==
    /\ streams["websocket"].loop = "running"
    /\ ticks < MaxTicks
    /\ \E f \in FrameResults :
          /\ ApplyFrame(f)
          /\ SendUpdate(f)
          /\ streams' = IF f.gf.frame # NULL /\ streams["websocket"].client = "gone"
                        THEN [streams EXCEPT !["websocket"].loop = "ended"]
                        ELSE streams
    /\ UNCHANGED <<inflight, threads>>

(* One round of the generator of video_feed, which the server asks for the *)
(* next part while the client is there; without a frame the generator      *)
(* breaks out of its loop                                                  *)
VideoLoopTick ==
    /\ streams["video_feed"].loop = "running"
    /\ streams["video_feed"].client = "connected"
    /\ ticks < MaxTicks
    /\ \E f \in FrameResults :
          /\ ApplyFrame(f)
          /\ YieldFrame(f)
          /\ streams' = IF f.gf.frame = NULL
                        THEN [streams EXCEPT !["video_feed"].loop = "ended"]
                        ELSE streams
    /\ UNCHANGED <<inflight, threads>>

(* The server finds the client of video_feed gone and stops iterating the  *)
(* generator                                                               *)
VideoClose ==
    /\ streams["video_feed"].loop = "running"
    /\ streams["video_feed"].client = "gone"
    /\ streams' = [streams EXCEPT !["video_feed"].loop = "ended"]
    /\ UNCHANGED <<stabVars, ml_available, now, cv_available, face_analyzer_available,
                   camera, persistent, log, gf, resp, ticks, inflight, threads>>

StreamNext ==
    \/ \E k \in StreamOps : OpenStream(k)
    \/ \E k \in StreamOps : ClientLeaves(k)
    \/ WsLoopTick
    \/ VideoLoopTick
    \/ VideoClose

(* The streams of one WebSocket client and one video client, from every    *)
(* start-up                                                                *)
StreamSpec == SysInit /\ [][StreamNext]_vars

---------------------------------------------------------------------------
(* detect_emotion as two threads run it on the shared detector.  The       *)
(* interpreter may switch threads between any two bytecodes, so each read  *)
(* and each write of an attribute of the detector is a step of its own     *)

(* Invocations that each thread makes *)
MaxRaceCalls == 2

(* The detector takes the state that the result r of a step carries *)
SetStabilizer(r) ==
    /\ current_emotion' = r.s.current_emotion
    /\ emotion_confidence' = r.s.emotion_confidence
    /\ last_emotion_change' = r.s.last_emotion_change
    /\ emotion_buffer' = r.s.emotion_buffer
    /\ frame_count' = r.s.frame_count
    /\ path' = r.path
    /\ ret' = r.ret
    /\ fallback_used' = (fallback_used \/ r.fb)

(* self.frame_count += 1, first half: thread t reads the counter *)
LoadFrameCount(t) ==
    /\ threads[t].pc = "idle"
    /\ threads[t].calls < MaxRaceCalls
    /\ threads' = [threads EXCEPT ![t] = [pc |-> "loaded", loaded |-> frame_count,
                                          calls |-> @.calls + 1]]
    /\ UNCHANGED <<stabVars, ml_available, now, cv_available, face_analyzer_available,
                   camera, persistent, log, gf, resp, ticks, inflight, streams>>

(* Variant of StoreFrameCount that adds one to the counter as it is now *)
StoreFrameCount_Atomic(t) ==
    /\ threads[t].pc = "loaded"
    /\ frame_count' = frame_count + 1
    /\ threads' = [threads EXCEPT ![t].pc = "stored"]
    /\ UNCHANGED <<current_emotion, emotion_confidence, last_emotion_change,
                   emotion_buffer, path, ret, hist, fallback_used>>
    /\ UNCHANGED <<ml_available, now, cv_available, face_analyzer_available,
                   camera, persistent, log, gf, resp, ticks, inflight, streams>>

(* self.frame_count += 1, second half: thread t writes what it read, plus  *)
(* one                                                                     *)
StoreFrameCount(t) ==
    /\ threads[t].pc = "loaded"
    /\ frame_count' = threads[t].loaded + 1
    /\ threads' = [threads EXCEPT ![t].pc = "stored"]
    /\ UNCHANGED <<current_emotion, emotion_confidence, last_emotion_change,
                   emotion_buffer, path, ret, hist, fallback_used>>
    /\ UNCHANGED <<ml_available, now, cv_available, face_analyzer_available,
                   camera, persistent, log, gf, resp, ticks, inflight, streams>>

(* The throttle reads the counter again; a call it lets through falls back *)
(* at once when there is no classifier                                     *)
Throttle(t) ==
    /\ threads[t].pc = "stored"
    /\ IF ~IsSampled(frame_count)
       THEN /\ SetStabilizer(Returned(Self, "throttled", FALSE))
            /\ threads' = [threads EXCEPT ![t].pc = "idle"]
       ELSE IF ~ml_available
       THEN /\ \E r \in FallbackEmotion(Self, now, "noml") : SetStabilizer(r)
            /\ threads' = [threads EXCEPT ![t].pc = "idle"]
       ELSE /\ UNCHANGED stabVars
            /\ threads' = [threads EXCEPT ![t].pc = "sampled"]
    /\ hist' = hist
    /\ UNCHANGED <<ml_available, now, cv_available, face_analyzer_available,
                   camera, persistent, log, gf, resp, ticks, inflight, streams>>

(* The classifier answers thread t: a face is appended to the buffer, and  *)
(* anything else falls back                                                *)
Classify(t, outcome) ==
    /\ threads[t].pc = "sampled"
    /\ IF outcome.kind = "result"
       THEN /\ emotion_buffer' = Append(emotion_buffer,
                                        <<DominantEmotion(outcome.emotions),
                                          Confidence(outcome.emotions)>>)
            /\ hist' = Append(hist, <<DominantEmotion(outcome.emotions),
                                      Confidence(outcome.emotions)>>)
            /\ threads' = [threads EXCEPT ![t].pc = "appended"]
            /\ UNCHANGED <<current_emotion, emotion_confidence, last_emotion_change,
                           frame_count, path, ret, fallback_used>>
       ELSE /\ \E r \in FallbackEmotion(Self, now,
                                         IF outcome.kind = "empty" THEN "noface" ELSE "error") :
                  SetStabilizer(r)
            /\ hist' = hist
            /\ threads' = [threads EXCEPT ![t].pc = "idle"]
    /\ UNCHANGED <<ml_available, now, cv_available, face_analyzer_available,
                   camera, persistent, log, gf, resp, ticks, inflight, streams>>

(* if len(self.emotion_buffer) > 5: self.emotion_buffer.pop(0) *)
Evict(t) ==
    /\ threads[t].pc = "appended"
    /\ emotion_buffer' = IF Len(emotion_buffer) > BufferCap THEN Tail(emotion_buffer)
                         ELSE emotion_buffer
    /\ threads' = [threads EXCEPT ![t].pc = "evicted"]
    /\ UNCHANGED <<current_emotion, emotion_confidence, last_emotion_change,
                   frame_count, path, ret, hist, fallback_used>>
    /\ UNCHANGED <<ml_available, now, cv_available, face_analyzer_available,
                   camera, persistent, log, gf, resp, ticks, inflight, streams>>

(* The vote over the buffer as it is now, the commit and the return *)
VoteAndReturn(t) ==
    /\ threads[t].pc = "evicted"
    /\ SetStabilizer(Returned(Vote(Self, now), "classified", FALSE))
    /\ hist' = hist
    /\ threads' = [threads EXCEPT ![t].pc = "idle"]
    /\ UNCHANGED <<ml_available, now, cv_available, face_analyzer_available,
                   camera, persistent, log, gf, resp, ticks, inflight, streams>>

RaceNext ==
    \/ \E t \in RaceThreads : LoadFrameCount(t)
    \/ \E t \in RaceThreads : StoreFrameCount(t)
    \/ \E t \in RaceThreads : Throttle(t)
    \/ \E t \in RaceThreads, outcome \in Outcomes : Classify(t, outcome)
    \/ \E t \in RaceThreads : Evict(t)
    \/ \E t \in RaceThreads : VoteAndReturn(t)

(* Two threads calling detect_emotion on the detector as it is built *)
RaceSpec == Init /\ [][RaceNext]_vars

---------------------------------------------------------------------------
(* Vocabulary of the properties, defined on the buffer as a set of slots   *)

FallbackPaths == {"noface", "error", "noml"}

(* The step is one call of detect_emotion *)
IsCall == frame_count' = frame_count + 1

(* Seconds since last_emotion_change when the call reads the clock *)
Elapsed == now - last_emotion_change

Slots(buf, l) == {i \in DOMAIN buf : buf[i][1] = l}

Occurrences(buf, l) == Cardinality(Slots(buf, l))

RECURSIVE SumOfSlots(_, _)
SumOfSlots(buf, S) ==
    IF S = {} THEN 0
    ELSE LET i == CHOOSE i \in S : TRUE IN buf[i][2] + SumOfSlots(buf, S \ {i})

(* l is a mode of the buffer *)
IsMode(buf, l) ==
    /\ Occurrences(buf, l) > 0
    /\ \A i \in DOMAIN buf : Occurrences(buf, buf[i][1]) <= Occurrences(buf, l)

(* The mean confidence of the slots carrying l exceeds pct percent *)
MeanAbove(buf, l, pct) ==
    SumOfSlots(buf, Slots(buf, l)) > Pct(pct) * Occurrences(buf, l)

(* The four conditions of a commit of l, on the buffer as the call left it *)
FourConditions(l) ==
    /\ IsMode(emotion_buffer', l)
    /\ l # current_emotion
    /\ Occurrences(emotion_buffer', l) >= 3
    /\ Elapsed > 2
    /\ MeanAbove(emotion_buffer', l, 60)

StableUnchanged ==
    UNCHANGED <<current_emotion, emotion_confidence, last_emotion_change>>

---------------------------------------------------------------------------
(* C1: on the classification path current_emotion is replaced by the       *)
(* buffer's mode only if the mode differs from current_emotion, occurs at  *)
(* least 3 times, more than 2 seconds have elapsed since                   *)
(* last_emotion_change and the mean confidence of its entries exceeds 60;  *)
(* if one of the four fails, current_emotion, emotion_confidence and       *)
(* last_emotion_change stay as they were.                                  *)
C1_CommitOnlyIfAllFour ==
    [][ (IsCall /\ path' = "classified") =>
          /\ (current_emotion' # current_emotion => FourConditions(current_emotion'))
          /\ ((~ \E l \in Labels : FourConditions(l)) => StableUnchanged)
      ]_vars

(* A classified call has just committed happy, more than 2 s after the     *)
(* previous change; and the buffer holds a low-confidence entry too        *)
C1_Witness ==
    /\ path = "classified"
    /\ current_emotion = "happy"
    /\ last_emotion_change = now
    /\ now > 2
    /\ Occurrences(emotion_buffer, "happy") >= 3
    /\ \E i \in DOMAIN emotion_buffer : emotion_buffer[i][2] <= Pct(60)

(* C2: no call changes current_emotion, emotion_confidence or              *)
(* last_emotion_change when less than 2 seconds have elapsed since         *)
(* last_emotion_change, whatever the buffer holds.                         *)
C2_NoChangeWithinDwell ==
    [][ (IsCall /\ Elapsed < 2) => StableUnchanged ]_vars

(* A classified call made within the dwell time left a buffer whose mode   *)
(* has three confident votes against the current emotion                   *)
C2_Witness ==
    /\ path = "classified"
    /\ now - last_emotion_change < 2
    /\ \E l \in Labels :
          /\ l # current_emotion
          /\ Occurrences(emotion_buffer, l) >= 3
          /\ MeanAbove(emotion_buffer, l, 60)

(* C3 as stated: while the buffer holds fewer than 3 entries no call of    *)
(* any kind changes current_emotion.                                       *)
C3_Original ==
    [][ (IsCall /\ Len(emotion_buffer') < 3) => current_emotion' = current_emotion ]_vars

(* C3 amended: while the buffer holds fewer than 3 entries no throttled    *)
(* and no classified call changes current_emotion; a call that changes it  *)
(* took the fallback policy more than 10 seconds after                     *)
(* last_emotion_change.                                                    *)
C3_SmallBufferOnlyFallbackChanges ==
    [][ (IsCall /\ Len(emotion_buffer') < 3 /\ current_emotion' # current_emotion) =>
          (path' \in FallbackPaths /\ Elapsed > 10)
      ]_vars

(* A classified call left two confident votes for a label other than the   *)
(* current one, more than 2 s after the last change                        *)
C3_Witness ==
    /\ path = "classified"
    /\ Len(emotion_buffer) = 2
    /\ now - last_emotion_change > 2
    /\ \E l \in Labels :
          /\ l # current_emotion
          /\ Occurrences(emotion_buffer, l) = 2
          /\ MeanAbove(emotion_buffer, l, 60)

(* C4 as stated: when the classifier reports label l with confidence above *)
(* 60 for the third time (on any three classified calls) and more than 2   *)
(* seconds have elapsed since last_emotion_change, current_emotion is l    *)
(* after that call.                                                        *)
HighReports(h, l) == Cardinality({i \in DOMAIN h : h[i][1] = l /\ h[i][2] > Pct(60)})

Reported == hist'[Len(hist')]

C4_Original ==
    [][ (IsCall /\ path' = "classified" /\ Reported[2] > Pct(60)
           /\ HighReports(hist', Reported[1]) = 3 /\ Elapsed > 2)
          => current_emotion' = Reported[1]
      ]_vars

(* C4 amended: when a classified call reports l, at least 3 of the         *)
(* buffered results (the last 5 classified results) carry l, every         *)
(* buffered result carrying l has confidence above 60 and more than 2      *)
(* seconds have elapsed since last_emotion_change, current_emotion is l    *)
(* after that call; and once current_emotion is l with 3 votes in the      *)
(* buffer, a further classified call reporting l leaves it l.              *)
C4_Convergence ==
    [][ (IsCall /\ path' = "classified") =>
          /\ ( ( /\ Occurrences(emotion_buffer', Reported[1]) >= 3
                 /\ \A i \in Slots(emotion_buffer', Reported[1]) :
                        emotion_buffer'[i][2] > Pct(60)
                 /\ Elapsed > 2 )
               => current_emotion' = Reported[1] )
          /\ ( ( /\ current_emotion = Reported[1]
                 /\ Occurrences(emotion_buffer, Reported[1]) >= 3 )
               => current_emotion' = Reported[1] )
      ]_vars

(* The third confident report of angry in a row has just been committed *)
C4_Witness ==
    /\ path = "classified"
    /\ Len(hist) >= 3
    /\ \A i \in (Len(hist) - 2)..Len(hist) : hist[i][1] = "angry" /\ hist[i][2] > Pct(60)
    /\ current_emotion = "angry"
    /\ last_emotion_change = now
    /\ ret = [kind |-> "return", emotion |-> "angry", confidence |-> emotion_confidence]

(* C5: if no label ever held 3 of the buffer's slots at once, and every    *)
(* sampled call so far was answered by the classifier, current_emotion is  *)
(* still its initial value, whatever the time and the confidences.         *)
Window(h, n) == SubSeq(h, IF n > 5 THEN n - 4 ELSE 1, n)

NoMajorityEver(h) ==
    \A n \in 1..Len(h) : \A l \in Labels : Occurrences(Window(h, n), l) < 3

C5_NoMajorityNoChange ==
    (NoMajorityEver(hist) /\ ~fallback_used) => current_emotion = "neutral"

(* Five classified results without a majority, two labels with two         *)
(* confident votes each, long after the dwell time                         *)
C5_Witness ==
    /\ Len(hist) = 5
    /\ NoMajorityEver(hist)
    /\ ~fallback_used
    /\ now - last_emotion_change > 2
    /\ HighReports(hist, "angry") = 2
    /\ HighReports(hist, "happy") = 2

(* C6: a call whose incremented invocation count is not a multiple of 3    *)
(* takes the throttled exit: it returns (current_emotion,                  *)
(* emotion_confidence) and leaves current_emotion, emotion_confidence,     *)
(* last_emotion_change and emotion_buffer unchanged; the classifier and    *)
(* the fallback policy are reached only by calls number 3, 6, 9, ...       *)
C6_Throttle ==
    [][ IsCall =>
          /\ (frame_count' % 3 # 0 =>
                /\ path' = "throttled"
                /\ ret' = [kind |-> "return", emotion |-> current_emotion,
                           confidence |-> emotion_confidence]
                /\ StableUnchanged
                /\ UNCHANGED <<emotion_buffer, hist, fallback_used>>)
          /\ (path' # "throttled" => frame_count' % 3 = 0)
      ]_vars

(* A throttled call right after a commit returns the committed pair *)
C6_Witness ==
    /\ path = "throttled"
    /\ frame_count % 3 = 1
    /\ frame_count > 9
    /\ current_emotion = "angry"
    /\ ret = [kind |-> "return", emotion |-> "angry", confidence |-> Pct(90)]

(* C7: the buffer never holds more than 5 entries and always equals the    *)
(* last min(n, 5) of the n classified results, in their order of arrival.  *)
C7_BufferIsLastFive ==
    /\ Len(emotion_buffer) <= 5
    /\ emotion_buffer = (IF Len(hist) = 0 THEN <<>> ELSE Window(hist, Len(hist)))

(* A sixth classified result has evicted the first, which differed from    *)
(* the second                                                              *)
C7_Witness ==
    /\ Len(hist) = 6
    /\ Len(emotion_buffer) = 5
    /\ hist[1] # hist[2]
    /\ emotion_buffer[1] = hist[2]
    /\ emotion_buffer[5] = hist[6]

(* C8: a call that takes the fallback policy leaves current_emotion (and   *)
(* with it emotion_confidence and last_emotion_change) unchanged unless    *)
(* more than 10 seconds have elapsed since last_emotion_change; when it    *)
(* reassigns, current_emotion is one of happy, neutral, sad, surprise,     *)
(* emotion_confidence is in [70, 85] and last_emotion_change is the time   *)
(* of the call.                                                            *)
C8_FallbackPolicy ==
    [][ (IsCall /\ path' \in FallbackPaths) =>
          /\ (Elapsed <= 10 => StableUnchanged)
          /\ (~StableUnchanged =>
                /\ current_emotion' \in {"happy", "neutral", "sad", "surprise"}
                /\ emotion_confidence' >= Pct(70)
                /\ emotion_confidence' <= Pct(85)
                /\ last_emotion_change' = now)
      ]_vars

(* The classifier found no face more than 10 s after the last change and   *)
(* the fallback policy has just reassigned                                 *)
C8_Witness ==
    /\ path = "noface"
    /\ current_emotion = "sad"
    /\ emotion_confidence = Pct(85)
    /\ last_emotion_change = now
    /\ now > 10

(* C9: every call returns an (emotion, confidence) pair, the current one,  *)
(* and never raises; a sampled call on which the classifier finds no face, *)
(* raises, or is unavailable is answered by the fallback policy.           *)
C9_NeverRaises ==
    [][ IsCall =>
          /\ ret' = [kind |-> "return", emotion |-> current_emotion',
                     confidence |-> emotion_confidence']
          /\ ((frame_count' % 3 = 0 /\ (DetectNoFace \/ DetectFails \/ ~ml_available))
                => (path' \in FallbackPaths /\ fallback_used'))
      ]_vars

(* The classifier raised on a sampled call and the call returned *)
C9_Witness ==
    /\ path = "error"
    /\ ml_available
    /\ frame_count % 3 = 0
    /\ ret = [kind |-> "return", emotion |-> current_emotion,
              confidence |-> emotion_confidence]

(* C10: current_emotion is always a valid label: neutral before the first  *)
(* call, and afterwards a label the classifier has reported or a member of *)
(* the fallback label set.                                                 *)
C10_ValidEmotion ==
    /\ frame_count = 0 => current_emotion = "neutral"
    /\ \/ current_emotion \in {"happy", "neutral", "sad", "surprise"}
       \/ \E i \in DOMAIN hist : hist[i][1] = current_emotion

(* The current emotion is a classifier label outside the fallback set *)
C10_Witness ==
    /\ current_emotion = "angry"
    /\ current_emotion \notin FallbackEmotions
    /\ path = "classified"

IsPercentage(c) == c >= 0 /\ c <= 100 * Unit

(* C11: every confidence the stabilizer holds or returns is a percentage   *)
(* in [0, 100]: the current one, the returned one and the buffered ones.   *)
C11_ConfidenceIsPercentage ==
    /\ IsPercentage(emotion_confidence)
    /\ ret.kind = "return" => IsPercentage(ret.confidence)
    /\ \A i \in DOMAIN emotion_buffer : IsPercentage(emotion_buffer[i][2])

(* A throttled call returns the committed mean confidence of three angry  *)
(* reports while the buffer also holds a report of 30 percent              *)
C11_Witness ==
    /\ path = "throttled"
    /\ current_emotion = "angry"
    /\ emotion_confidence = Pct(90)
    /\ ret.kind = "return"
    /\ ret.confidence = emotion_confidence
    /\ \E i \in DOMAIN emotion_buffer : emotion_buffer[i][2] = Pct(30)

(* An observation is well-formed: the emotion is null iff nobody is        *)
(* present, and the confidence is null iff the emotion is                  *)
WellFormed(o) ==
    /\ o.emotion = NULL <=> ~o.is_present
    /\ o.confidence = NullNumber <=> o.emotion = NULL

ReturnPaths ==
    {"none", "demo", "no_camera", "read_fail", "read_raises", "detect_raises", "no_face",
     "face", "draw_raises", "encode_raises"}

(* C12: get_frame returns on every path, and what it returns, and what the *)
(* WebSocket loop passes on, is a well-formed observation.                 *)
C12_WellFormedObservation ==
    /\ gf.path \in ReturnPaths
    /\ WellFormed(gf)
    /\ resp.op = "websocket" => WellFormed(resp)
    /\ resp.op = "create_detection" /\ resp.status = 200 => WellFormed(resp.body)

(* Drawing on the frame raised after the basic detection, which the face   *)
(* analyzer was not there to replace, had given an emotion: the call       *)
(* reports nobody present                                                  *)
C12_Witness ==
    /\ gf.path = "draw_raises"
    /\ ~face_analyzer_available
    /\ persistent.state = "full"
    /\ gf.frame = "bytes"
    /\ ~gf.is_present

(* C13: without the camera libraries a tick reports what the demo          *)
(* generator drew: present whenever the draw is, and then with an emotion  *)
(* and a confidence between 70 and 95 percent.                             *)
C13_DemoReportsItsDraw ==
    gf.path = "demo" =>
        /\ gf.is_present = gf.draw.is_present
        /\ gf.is_present =>
              /\ gf.emotion # NULL
              /\ gf.confidence >= Pct(70)
              /\ gf.confidence <= Pct(95)

(* C14 as stated: every call of get_frame adds one row to the log.         *)
C14_Original == [][ticks' = ticks + 1 => Len(log') = Len(log) + 1]_vars

(* The latest request was a create_detection whose commit succeeded: it    *)
(* was answered with the row, or with the exception of the later refresh   *)
Committed(r) ==
    /\ r.op = "create_detection"
    /\ IF r.status = 200 THEN TRUE ELSE r.raised = "refresh"

(* C14: a call of get_frame adds one row to the log if create_detection    *)
(* made it and its commit succeeded, and adds none otherwise.              *)
C14_OneRowPerStoredDetection ==
    [][ticks' = ticks + 1 =>
         Len(log') = Len(log) + (IF Committed(resp') THEN 1 ELSE 0)]_vars

(* Three ticks, the last one a stored detection, left two rows *)
C14_Witness ==
    /\ ticks = 3
    /\ Len(log) = 2
    /\ resp.op = "create_detection"
    /\ resp.status = 200
    /\ resp.body.id = 2

(* C15: every step of the API keeps the rows of the log as they are, and   *)
(* only create_detection adds to it: one row, with an id no row has.       *)
C15_AppendOnly ==
    [][/\ Len(log') >= Len(log)
       /\ SubSeq(log', 1, Len(log)) = log
       /\ log' # log =>
             /\ resp'.op = "create_detection"
             /\ Len(log') = Len(log) + 1
             /\ \A i \in DOMAIN log : log[i].id # log'[Len(log')].id]_vars

(* An export answered from a log of two rows that two requests created *)
C15_Witness ==
    /\ Len(log) = 2
    /\ log[1].id # log[2].id
    /\ resp.op = "export_pdf"
    /\ resp.status = 200

(* The rows of the window a summary was asked for *)
WindowOf(r) ==
    { i \in DOMAIN log :
        /\ log[i].employee_id = r.employee_id
        /\ log[i].timestamp >= r.at - r.days * SecondsPerDay }

PresentIn(rows) == { i \in rows : log[i].is_present = 1 }

EmptySummary(b) ==
    /\ b.total_detections = 0
    /\ b.presence_percentage = 0
    /\ DOMAIN b.emotion_distribution = {}
    /\ b.working_hours = 0

Abs(x) == IF x >= 0 THEN x ELSE 0 - x

(* C16 as stated: the presence percentage is exactly 100 * present / total *)
C16_Original ==
    resp.op = "get_analytics" =>
        LET w == WindowOf(resp)
        IN  /\ resp.status = 200
            /\ resp.body.total_detections = Cardinality(w)
            /\ w # {} =>
                  resp.body.presence_percentage * Cardinality(w)
                      = 100 * 100 * Cardinality(PresentIn(w))
            /\ w = {} => EmptySummary(resp.body)

(* C16: get_analytics returns the number of events of the window and the   *)
(* presence percentage 100 * present / total rounded to two decimals; for  *)
(* the empty window it returns the all-zero summary as a normal result.    *)
C16_RoundedPresence ==
    resp.op = "get_analytics" =>
        LET w == WindowOf(resp)
        IN  /\ resp.status = 200
            /\ resp.body.total_detections = Cardinality(w)
            /\ w # {} =>
                  2 * Abs(resp.body.presence_percentage * Cardinality(w)
                            - 100 * 100 * Cardinality(PresentIn(w))) <= Cardinality(w)
            /\ w = {} => EmptySummary(resp.body)

(* Two of three events are present: 66.67 percent *)
C16_Witness ==
    /\ resp.op = "get_analytics"
    /\ Cardinality(WindowOf(resp)) = 3
    /\ Cardinality(PresentIn(WindowOf(resp))) = 2
    /\ resp.body.presence_percentage = 6667

(* The window of the example: present/happy, present/happy, present/sad,   *)
(* absent                                                                  *)
IsExampleWindow(rows) ==
    /\ Len(rows) = 4
    /\ \A i \in 1 .. 2 : rows[i].is_present = 1 /\ rows[i].emotion = "happy"
    /\ rows[3].is_present = 1 /\ rows[3].emotion = "sad"
    /\ rows[4].is_present = 0 /\ rows[4].emotion = NULL

RowsOf(r) == SelectSeq(log, LAMBDA d : \E i \in WindowOf(r) : log[i] = d)

(* C17 as stated: the working hours are exactly present * 0.5 / 60, and    *)
(* 0.025 for the example.                                                  *)
C17_Original ==
    resp.op = "get_analytics" =>
        /\ resp.body.working_hours * 60 * 2 = 100 * Cardinality(PresentIn(WindowOf(resp)))
        /\ IsExampleWindow(RowsOf(resp)) =>
              /\ resp.body.presence_percentage = 7500
              /\ 10 * resp.body.working_hours = 25

(* C17: the working hours are present * 0.5 / 60 rounded to two decimals;  *)
(* for the example the presence percentage is 75.0 and the working hours   *)
(* are 0.03.                                                               *)
C17_RoundedHours ==
    resp.op = "get_analytics" =>
        /\ Abs(6 * resp.body.working_hours - 5 * Cardinality(PresentIn(WindowOf(resp)))) <= 3
        /\ IsExampleWindow(RowsOf(resp)) =>
              /\ resp.body.presence_percentage = 7500
              /\ resp.body.working_hours = 3

(* The summary of the example window *)
C17_Witness ==
    /\ resp.op = "get_analytics"
    /\ IsExampleWindow(RowsOf(resp))
    /\ resp.body.working_hours = 3

(* The response carries a summary of a window *)
HasSummary(r) == r.op \in {"get_analytics", "export_csv", "export_pdf"} /\ r.status = 200

DistributionOf(r) ==
    IF r.op = "get_analytics" THEN r.body.emotion_distribution
    ELSE r.summary.emotion_distribution

(* The present events among rows that carry the label k *)
LabelRows(rows, k) == { i \in PresentIn(rows) : log[i].emotion = k }

RECURSIVE SumOver(_, _)
SumOver(f, keys) ==
    IF keys = {} THEN 0
    ELSE LET k == CHOOSE x \in keys : TRUE
         IN  f[k] + SumOver(f, keys \ {k})

(* C18: the emotion distribution of a summary has exactly the labels of    *)
(* the present events with an emotion as keys, each with the number of     *)
(* those events, and its counts add up to at most the present events.      *)
C18_EmotionDistribution ==
    HasSummary(resp) =>
        LET w == WindowOf(resp)
            dist == DistributionOf(resp)
        IN  /\ DOMAIN dist = { log[i].emotion : i \in { j \in PresentIn(w) : log[j].emotion # NULL } }
            /\ \A k \in DOMAIN dist : dist[k] = Cardinality(LabelRows(w, k)) /\ dist[k] > 0
            /\ SumOver(dist, DOMAIN dist) <= Cardinality(PresentIn(w))

(* The distribution of the example window: happy twice, sad once, and no   *)
(* other key                                                               *)
C18_Witness ==
    /\ resp.op = "get_analytics"
    /\ IsExampleWindow(RowsOf(resp))
    /\ DOMAIN resp.body.emotion_distribution = {"happy", "sad"}
    /\ resp.body.emotion_distribution["happy"] = 2
    /\ resp.body.emotion_distribution["sad"] = 1

(* The rows a query asked for: of its subject and within its range *)
Wanted(r) ==
    { i \in DOMAIN log :
        /\ log[i].employee_id = r.employee_id
        /\ r.start # "" => log[i].timestamp >= FromIsoFormat(r.start)
        /\ r.end # "" => log[i].timestamp <= FromIsoFormat(r.end) }

(* The returned event b is the stored row d *)
SameFields(b, d) ==
    /\ b.id = d.id
    /\ b.employee_id = d.employee_id
    /\ b.timestamp = d.timestamp
    /\ b.is_present = (d.is_present = 1)
    /\ b.emotion = d.emotion
    /\ b.confidence = d.confidence

NewestFirst(body) ==
    \A i, j \in DOMAIN body : i < j => body[i].timestamp >= body[j].timestamp

Answered(r) == r.op = "get_detections" /\ r.status = 200

(* C19 as stated: the query returns every row asked for, and no other.    *)
C19_Original ==
    Answered(resp) =>
        /\ Len(resp.body) = Cardinality(Wanted(resp))
        /\ \A i \in Wanted(resp) : \E j \in DOMAIN resp.body : SameFields(resp.body[j], log[i])
        /\ \A j \in DOMAIN resp.body : \E i \in Wanted(resp) : SameFields(resp.body[j], log[i])
        /\ NewestFirst(resp.body)

(* C19: the query returns the newest rows asked for, as many as the limit  *)
(* allows, newest first, each once and with the fields it was stored with. *)
C19_NewestUpToLimit ==
    Answered(resp) =>
        /\ Len(resp.body) = Min(resp.limit, Cardinality(Wanted(resp)))
        /\ \A j \in DOMAIN resp.body : \E i \in Wanted(resp) : SameFields(resp.body[j], log[i])
        /\ \A j, k \in DOMAIN resp.body : j # k => resp.body[j].id # resp.body[k].id
        /\ NewestFirst(resp.body)
        /\ \A i \in Wanted(resp) :
              (\A j \in DOMAIN resp.body : resp.body[j].id # log[i].id) =>
                  \A j \in DOMAIN resp.body : resp.body[j].timestamp >= log[i].timestamp

(* A query with limit 1 and an end date, for which two rows of different   *)
(* times were stored, returned the newer one                               *)
C19_Witness ==
    /\ Answered(resp)
    /\ resp.limit = 1
    /\ resp.end # ""
    /\ Cardinality(Wanted(resp)) = 2
    /\ Len(resp.body) = 1
    /\ \E i \in Wanted(resp) : log[i].timestamp < resp.body[1].timestamp

(* C20: at most one sampling operation is inside get_frame at a time.      *)
C20_CameraMutualExclusion == Cardinality(inflight) <= 1


---------------------------------------------------------------------------
(* Failures of the log store, subjects, and the updates of the stabilizer *)

(* The latest step was a create_detection request *)
IsCreateDetection == ticks' = ticks + 1 /\ resp'.op = "create_detection"

(* C23: a create_detection request in which the database raises is         *)
(* answered with an error, and the log is then what it was before the      *)
(* request; a request answered with a success has stored the row it        *)
(* returns.                                                                *)
C23_FailedWriteLeavesLog ==
    [][IsCreateDetection =>
          IF resp'.status = 200
          THEN /\ Len(log') = Len(log) + 1
               /\ resp'.body = DetectionResponse(log'[Len(log')])
          ELSE log' = log]_vars


(* The subjects other than the one whose stabilizer state is watched *)
OtherSubjects == Employees \ {DefaultEmployee}

(* C24: a detection made for another subject leaves the stabilizer state   *)
(* of the default subject (its current emotion, confidence, time of the    *)
(* last change, buffer and throttle counter) as it was.                    *)
C24_PerSubjectState ==
    [][\A emp \in OtherSubjects :
          CreateDetection(emp) =>
              UNCHANGED <<current_emotion, emotion_confidence, last_emotion_change,
                          emotion_buffer, frame_count>>]_vars


(* C26 as stated: a call that moves last_emotion_change leaves             *)
(* current_emotion different from what it was before the call.             *)
C26_Original ==
    [][last_emotion_change' # last_emotion_change =>
          current_emotion' # current_emotion]_vars

(* C26: last_emotion_change is moved only to the time of the call, and     *)
(* only by a commit of the vote, which changes current_emotion, or by a    *)
(* reassignment of the fallback more than ten seconds after the last one,  *)
(* whether or not the emotion it draws is the current one.                 *)
C26_MovedByCommitOrReassignment ==
    [][last_emotion_change' # last_emotion_change =>
          /\ last_emotion_change' = now
          /\ IF path' \in FallbackPaths
             THEN now - last_emotion_change > FallbackDwell
             ELSE path' = "classified" /\ current_emotion' # current_emotion]_vars

(* The fallback reassigned the emotion that had been current since the     *)
(* start, and moved last_emotion_change                                    *)
C26_Witness ==
    /\ path \in FallbackPaths
    /\ hist = <<>>
    /\ current_emotion = InitialEmotion
    /\ last_emotion_change = now
    /\ now > FallbackDwell


(* The latest response is an export *)
IsExport(r) == r.op \in {"export_csv", "export_pdf"}

(* The fraction f = <<numerator, denominator>> is the number h of          *)
(* hundredths                                                              *)
SameNumber(f, h) == f[1] * 100 = h * f[2]

(* h hundredths is the fraction f rounded to two decimals *)
RoundedTo(f, h) == 2 * Abs(h * f[2] - f[1] * 100) <= f[2]

(* C27 as stated: an export carries the summary that get_analytics returns *)
(* for the same subject and window, the empty window included.             *)
C27_Original ==
    IsExport(resp) =>
        /\ resp.status = 200
        /\ \E b \in Analytics(RowsOf(resp)) :
              /\ resp.summary.total_detections = b.total_detections
              /\ resp.summary.emotion_distribution = b.emotion_distribution
              /\ SameNumber(resp.summary.presence_percentage, b.presence_percentage)
              /\ SameNumber(resp.summary.working_hours, b.working_hours)

(* C27: an export carries the total and the emotion distribution that      *)
(* get_analytics returns for the same subject and window, and the          *)
(* presence percentage and working hours of which get_analytics returns    *)
(* the roundings to two decimals; for the empty window export_pdf answers  *)
(* 404 and carries no summary.                                             *)
C27_SameUpToRounding ==
    IsExport(resp) =>
        /\ resp.status = (IF resp.op = "export_pdf" /\ WindowOf(resp) = {} THEN 404 ELSE 200)
        /\ resp.status = 200 =>
              \E b \in Analytics(RowsOf(resp)) :
                 /\ resp.summary.total_detections = b.total_detections
                 /\ resp.summary.emotion_distribution = b.emotion_distribution
                 /\ RoundedTo(resp.summary.presence_percentage, b.presence_percentage)
                 /\ RoundedTo(resp.summary.working_hours, b.working_hours)

(* An export of a window of three events, two of them present: 66.66...    *)
(* percent, where get_analytics returns 66.67                              *)
C27_Witness ==
    /\ resp.op = "export_csv"
    /\ resp.summary.total_detections = 3
    /\ resp.summary.presence_percentage = <<200, 3>>
    /\ resp.summary.working_hours = <<10, 600>>
    /\ \E b \in Analytics(RowsOf(resp)) : b.presence_percentage = 6667


(* C28: get_detections answers HTTP 400 exactly when start_date or         *)
(* end_date is malformed; in particular a query that the log store fails   *)
(* is not answered with HTTP 400.                                          *)
C28_InvalidDateIffMalformed ==
    resp.op = "get_detections" =>
        (resp.status = 400 <=> (Malformed(resp.start) \/ Malformed(resp.end)))


---------------------------------------------------------------------------
(* The streaming loops *)

(* The latest step was a round of the loop of stream k *)
StreamRound(k) == ticks' = ticks + 1 /\ resp'.op = k

(* C21: a round of a streaming loop whose client is gone ends the loop,    *)
(* and a loop that ends after its client has gone leaves the camera        *)
(* released.                                                               *)
C21_Cancellable ==
    [][\A k \in StreamOps :
          streams[k].client = "gone" =>
              /\ StreamRound(k) => streams'[k].loop = "ended"
              /\ (streams[k].loop = "running" /\ streams'[k].loop = "ended") =>
                    camera' = "none"]_vars

(* C22: a round of a streaming loop in which get_frame returns no frame,   *)
(* made while the client is connected, leaves the loop running.            *)
C22_FailureKeepsLoopRunning ==
    [][\A k \in StreamOps :
          (streams[k].client = "connected" /\ StreamRound(k) /\ gf'.frame = NULL) =>
              streams'[k].loop = "running"]_vars


---------------------------------------------------------------------------
(* Interleaved invocations of detect_emotion *)

(* The invocations that have written frame_count *)
Stores(th) == th.calls - (IF th.pc = "loaded" THEN 1 ELSE 0)

(* C25: an invocation writes frame_count as the value it read plus one,    *)
(* whatever another invocation wrote since, and appends to the buffer as   *)
(* it finds it; so frame_count never counts more invocations than have     *)
(* written it, and counts fewer when a write is overwritten.               *)
C25_LastWriteWins ==
    [][\A t \in RaceThreads :
          /\ (threads[t].pc = "loaded" /\ threads'[t].pc = "stored") =>
                 frame_count' = threads[t].loaded + 1
          /\ (threads[t].pc = "sampled" /\ threads'[t].pc = "appended") =>
                 Len(emotion_buffer') = Len(emotion_buffer) + 1
          /\ frame_count' <= Stores(threads'["video_feed"])
                                + Stores(threads'["create_detection"])]_vars

(* Both threads have finished one invocation each, and frame_count has     *)
(* risen by one only                                                       *)
C25_Witness ==
    /\ \A t \in RaceThreads : threads[t].pc = "idle" /\ threads[t].calls = 1
    /\ frame_count = 1

=============================================================================
